---- MODULE Spec2Model ----
(***************************************************************************)
(* Model of tobq/loadable: the Loadable tagged value, the timestamp-guarded *)
(* state cell (useLatestState), the cancellation source (useAbort) and the  *)
(* fetch-orchestration hook (useLoadable), src/src/loadable.ts and          *)
(* src/src/utils.ts.                                                        *)
(*                                                                         *)
(* Specifications:                                                         *)
(*   SpecPrim  drives one useLatestState cell and one useAbort source        *)
(*             directly, as a caller of those two hooks would;              *)
(*   Spec      drives one useLoadable instance: triggering cycles (effect    *)
(*             runs), cache reads, producer settlements, promise handlers,   *)
(*             unmount.  FairSpec adds the progress of queued promise        *)
(*             handlers (microtasks always run).                             *)
(*   SpecThen    drives one useThen or useAllThen instance;                  *)
(*   SpecPref    one useLoadable instance given options.prefetched;          *)
(*   SpecShared  one useLoadable instance and the tracker it shares with     *)
(*               the other instances of the process;                         *)
(*   SpecCleanup one useLoadableWithCleanup instance;                        *)
(*   SpecFn      calls the pure functions map, all and the three guards.     *)
(*                                                                         *)
(* Host framework conventions used by the model: a render, the cleanup of    *)
(* the previous effect and the run of the new effect are one step, so the    *)
(* value the effect closes over is the value of the cell at that step; a    *)
(* state update requested after unmount is ignored; an exception escaping    *)
(* an effect unmounts the component.  The clock (Date.now) never goes back   *)
(* but may return the same value twice; only the order of the values it     *)
(* returns matters, so a read returns the previous value or the next one.   *)
(***************************************************************************)
EXTENDS Integers, Sequences, FiniteSets, TLC

(* ---------------------------------------------------------------------- *)
(* Bounds                                                                   *)
(* ---------------------------------------------------------------------- *)
MaxTime == 3
MaxCycles == 2
MaxWrites == 3
MaxRenew == 3
MaxArgs == 3

(* ---------------------------------------------------------------------- *)
(* Loadable values                                                          *)
(* ---------------------------------------------------------------------- *)
\* A Loadable is a record [tag, message, cause, v, startTime]; tag tells
\* which of the others is meant: "loading" (none), "token" (startTime),
\* "value" (v), "LoadError" (cause, message).
\* Every record of this module lists its fields in one fixed order.
isLoadingValue(value) == value.tag = "loading" \/ value.tag = "token"

loadFailed(loadable) == loadable.tag = "LoadError"

hasLoaded_ignoreFailure(loadable) == ~isLoadingValue(loadable)

hasLoaded(loadable) == ~isLoadingValue(loadable) /\ ~loadFailed(loadable)

NoCause == [isError |-> FALSE, message |-> "", str |-> ""]

loading ==
    [tag |-> "loading", message |-> "", cause |-> NoCause, v |-> "none", startTime |-> 0]

LoadingToken(t) ==
    [tag |-> "token", message |-> "", cause |-> NoCause, v |-> "none", startTime |-> t]

Loaded(v) ==
    [tag |-> "value", message |-> "", cause |-> NoCause, v |-> v, startTime |-> 0]

\* undefined and null are values like any other: neither loading nor a
\* LoadError.
undefined == Loaded("undefined")
null == Loaded("null")

\* Payloads a producer or a cache can yield.
Values == {"v1", "v2"}

\* Failure causes: an Error instance, and a non-Error value.
\* message is the Error's message property, str is String(cause).
ErrBoom == [isError |-> TRUE, message |-> "boom", str |-> "Error: boom"]
StrOops == [isError |-> FALSE, message |-> "undefined", str |-> "oops"]

\* What a producer rejects its promise with, and what it throws when it
\* throws before returning a promise.
Rejections == {ErrBoom}
Thrown == {StrOops}
Causes == Rejections \cup Thrown

LoadError(cause) ==
    [tag |-> "LoadError",
     message |-> IF cause.isError THEN cause.message ELSE cause.str,
     cause |-> cause,
     v |-> "none",
     startTime |-> 0]

\* The cause a failing cache operation rejects with (a storage exception).
ErrCache == [isError |-> TRUE, message |-> "cache", str |-> "Error: cache"]

map_loadingOnly(loadable, mapped) ==
    IF isLoadingValue(loadable) THEN loadable
    ELSE mapped

\* map(loadable, mapper): mapped stands for mapper(loadable).
map(loadable, mapped) ==
    IF loadFailed(loadable) THEN loadable
    ELSE IF isLoadingValue(loadable) THEN loadable
    ELSE mapped

\* The number of times map(loadable, mapper) calls mapper.
mapCalls(loadable) ==
    IF loadFailed(loadable) THEN 0
    ELSE IF isLoadingValue(loadable) THEN 0
    ELSE 1

all_propagateFailure(loadables) ==
    IF \E i \in DOMAIN loadables : loadFailed(loadables[i])
    THEN loadables[CHOOSE i \in DOMAIN loadables : loadFailed(loadables[i])]
    ELSE IF \E i \in DOMAIN loadables : ~hasLoaded(loadables[i])
    THEN loading
    ELSE Loaded([i \in DOMAIN loadables |-> loadables[i].v])

\* all(...loadables): loading unless every item has loaded, else the array
\* of the items.
all(loadables) ==
    IF \E i \in DOMAIN loadables : ~hasLoaded(loadables[i])
    THEN loading
    ELSE Loaded([i \in DOMAIN loadables |-> loadables[i].v])

\* A LoadError thrown as it is: the cause the promise rejects with (it is
\* an Error; its own cause is not followed further).
asCause(loadError) ==
    [isError |-> TRUE, message |-> loadError.message, str |-> loadError.cause.str]

\* The source values callers hand to useThen (FirstSources) and, as first
\* and second item, to useAllThen.
ErrSource == [isError |-> TRUE, message |-> "source", str |-> "Error: source"]
FirstSources == {loading, Loaded("s1"), LoadError(ErrSource)}
SecondSources == {LoadingToken(1), Loaded("s2"), LoadError(ErrSource)}

(* ---------------------------------------------------------------------- *)
(* useLatestState                                                           *)
(* ---------------------------------------------------------------------- *)
\* A literal new value, or an updater function named f.
Lit(v) == [v |-> v, fn |-> FALSE, f |-> "none"]
Fn(f) == [v |-> 0, fn |-> TRUE, f |-> f]

\* The updater functions callers pass in SpecPrim (cell over 0..2).
Updaters == {"inc", "zero"}
Apply(f, x) == IF f = "inc" THEN (x + 1) % 3 ELSE 0

InitCell(initial) == [value |-> initial, loadStart |-> 0]

updateValue_noGuard(current, newValue, loadStart) ==
    [value |-> IF newValue.fn THEN Apply(newValue.f, current.value) ELSE newValue.v,
     loadStart |-> loadStart]

updateValue_strict(current, newValue, loadStart) ==
    IF current.loadStart >= loadStart
    THEN current
    ELSE [value |-> IF newValue.fn THEN Apply(newValue.f, current.value) ELSE newValue.v,
          loadStart |-> loadStart]

\* setValue(current => ...): the state the reducer returns.
updateValue(current, newValue, loadStart) ==
    IF current.loadStart > loadStart
    THEN current
    ELSE [value |-> IF newValue.fn THEN Apply(newValue.f, current.value) ELSE newValue.v,
          loadStart |-> loadStart]

\* Whether the reducer evaluates newValue(current.value).
updaterInvoked(current, newValue, loadStart) ==
    ~(current.loadStart > loadStart) /\ newValue.fn

(* ---------------------------------------------------------------------- *)
(* useAbort                                                                 *)
(* ---------------------------------------------------------------------- *)
\* A source is [ref, signals]: signals[i] is TRUE iff the i-th controller
\* created by the source has been aborted; ref is the index of the
\* controller held in the ref (0: none).
InitSource == [ref |-> 0, signals |-> <<>>]

useAbort_noAbort(src) ==
    [ref |-> Len(src.signals) + 1, signals |-> Append(src.signals, FALSE)]

\* src/src/loadable.ts: abort the held controller, then replace it.
useAbort(src) ==
    LET aborted == IF src.ref # 0
                   THEN [src.signals EXCEPT ![src.ref] = TRUE]
                   ELSE src.signals
    IN [ref |-> Len(aborted) + 1, signals |-> Append(aborted, FALSE)]

\* src/src/utils.ts: replace the held controller, then abort the old one.
useAbort_utils(src) ==
    LET current == src.ref
        replaced == [ref |-> Len(src.signals) + 1,
                     signals |-> Append(src.signals, FALSE)]
    IN IF current # 0
       THEN [replaced EXCEPT !.signals[current] = TRUE]
       ELSE replaced

\* The signal a call of the returned function hands to its caller.
signalOf(src) == src.ref

(* ---------------------------------------------------------------------- *)
(* State                                                                    *)
(* ---------------------------------------------------------------------- *)
VARIABLES
    \* SpecPrim: a useLatestState cell and a useAbort source used directly
    pcell,      \* [value, loadStart]
    plast,      \* the last write: [n, newValue, loadStart, before, invoked]
    pimpl,      \* which useAbort the source is: "loadable" or "utils"
    psrc,       \* the source
    pissued,    \* indices of the signals returned to the caller
    pmounted,   \* the component owning the source is mounted
    \* Spec: one useLoadable instance
    shape,            \* call shape: "waitable" (case 1), "simple" (case 2),
                      \* "then" (useThen) or "allThen" (useAllThen)
    cacheKey,         \* whether options.cache names a key
    store,            \* the cache entry under that key: a payload or "none"
    cell,             \* the useLatestState cell: [value, loadStart]
    now,              \* the last value currentTimestamp() returned
    cycles,           \* the triggering cycles so far, oldest first
    src,              \* the useAbort source of the instance
    currentlyLoading, \* the process-wide set of in-flight start times
    prerenderReady,   \* window.prerenderReady
    escaped,          \* exceptions no handler caught: of the producer, out of
                      \* the effect ("effect") or as an unhandled rejection
                      \* ("unhandled"); of readCache ("cacheRead")
    mounted,          \* the component is mounted
    prefetched,       \* options.prefetched of the instance (case 2)
    others,           \* start times of the live unsettled producer calls of
                      \* the other hook instances of the process
    dirty,            \* the state object of the cell was replaced since the
                      \* last render: the host framework will render again
    reruns,           \* indices of the cycles started by such a render, not
                      \* by the first render or a dependency change
    cancelled,        \* the caller called the cleanup function of
                      \* useLoadableWithCleanup and no cycle started since
    pure,             \* the last call of a pure function: what was called,
                      \* its arguments, its result, the calls of the mapper
    rendered          \* the loadables useThen / useAllThen was last rendered
                      \* with (none in the other call shapes)

pvars == <<pcell, plast, pimpl, psrc, pissued, pmounted>>
hvars == <<shape, cacheKey, store, cell, now, cycles, src,
           currentlyLoading, prerenderReady, escaped, mounted>>
xvars == <<prefetched, others, dirty, reruns, cancelled, pure, rendered>>
vars == <<pcell, plast, pimpl, psrc, pissued, pmounted,
          shape, cacheKey, store, cell, now, cycles, src,
          currentlyLoading, prerenderReady, escaped, mounted,
          prefetched, others, dirty, reruns, cancelled, pure, rendered>>

NoWrite == [loadStart |-> 0, newValue |-> Lit(0), n |-> 0,
            before |-> InitCell(0), invoked |-> FALSE]

PInit ==
    /\ pcell = InitCell(0)
    /\ plast = NoWrite
    /\ pimpl \in {"loadable", "utils"}
    /\ psrc = InitSource
    /\ pissued = {}
    /\ pmounted = TRUE

\* A caller writes newValue with an explicit timestamp.
PWrite(newValue, loadStart) ==
    /\ plast.n < MaxWrites
    /\ pcell' = updateValue(pcell, newValue, loadStart)
    /\ plast' = [loadStart |-> loadStart, newValue |-> newValue, n |-> plast.n + 1,
                 before |-> pcell,
                 invoked |-> updaterInvoked(pcell, newValue, loadStart)]
    /\ UNCHANGED <<pimpl, psrc, pissued, pmounted, hvars, xvars>>

PWriteLiteral == \E v \in 0..2, t \in 0..MaxTime : PWrite(Lit(v), t)

PWriteUpdater == \E f \in Updaters, t \in 0..MaxTime : PWrite(Fn(f), t)

\* A caller calls the function useAbort returned.
PRenew ==
    /\ pmounted
    /\ Len(psrc.signals) < MaxRenew
    /\ psrc' = IF pimpl = "loadable" THEN useAbort(psrc) ELSE useAbort_utils(psrc)
    /\ pissued' = pissued \cup {signalOf(psrc')}
    /\ UNCHANGED <<pcell, plast, pimpl, pmounted, hvars, xvars>>

\* Unmount: utils.ts registers an effect whose cleanup calls abort();
\* loadable.ts registers none.
PUnmount ==
    /\ pmounted
    /\ pmounted' = FALSE
    /\ psrc' = IF pimpl = "utils" THEN useAbort_utils(psrc) ELSE psrc
    /\ UNCHANGED <<pcell, plast, pimpl, pissued, hvars, xvars>>

PNext ==
    \/ PWriteLiteral
    \/ PWriteUpdater
    \/ PRenew
    \/ PUnmount

(* ---------------------------------------------------------------------- *)
(* useLoadable                                                              *)
(* ---------------------------------------------------------------------- *)
\* One triggering cycle (one run of the effect).
\*   pc: "idle"      not ready, nothing started
\*       "cacheRead" case 1 awaits readCache before doFetch
\*       "wrapRead"  the case 2 wrapper awaits readCache
\*       "fetching"  the caller's producer was invoked, its promise is pending
\*       "wrapWrite" the case 2 wrapper resumes after the producer resolved
\*       "resolved"  the promise doFetch chained on resolved; .then is queued
\*       "rejected"  that promise rejected; .catch is queued
\*       "finally"   .then or .catch ran; .finally is queued
\*       "done"      .finally ran
\*       "threw"     the producer threw out of doFetch
\*       "readFailed" case 1: readCache rejected, the continuation is dead
\*   cached: what readCache read, while the read is awaited
\*   kept: the effect left the cell alone (hideReload over a loaded value)
\*   onError: the causes options.onError was called with for this cycle
\*   sources: the loadables useThen / useAllThen was rendered with
\*   waitable: the waitable of the render that started the cycle
\*   args: the arguments the caller's fetcher was invoked with
\*   hit: the value the cache read found ("none": a miss, or no read)
\*   log: what the cycle did, in order: "set:loading", "read" (followed by
\*        "read:failed" if readCache rejects), "set:cached",
\*        "call", "write" ("write:failed" if writeCache rejects),
\*        "set:result", "onError", "set:error"
\*   hideReload: options.hideReload of the render, recorded by
\*        useLoadableWithCleanup, whose effect runs again without a change
\*        of the caller's dependencies
NewCycle(startTime, rdy, kept) ==
    [startTime |-> startTime, invoked |-> FALSE, kept |-> kept, ready |-> rdy,
     pc |-> "idle", res |-> "none", err |-> NoCause, sig |-> 0,
     cached |-> "none", cleanup |-> TRUE, torn |-> FALSE,
     onError |-> <<>>,
     sources |-> <<>>, waitable |-> loading, args |-> <<>>, hit |-> "none",
     log |-> IF kept THEN <<>> ELSE <<"set:loading">>,
     hideReload |-> FALSE]

waitableOf_ignoreSource(srcs) ==
    IF shape = "then" THEN Loaded("s1")
    ELSE IF shape = "allThen" THEN all(srcs)
    ELSE IF shape = "waitable" THEN Loaded("w")
    ELSE loading

\* The waitable of a render: useThen passes its loadable, useAllThen the
\* combination of its loadables, case 2 the constant loading; the waitable
\* of a case 1 caller is opaque and stands as "w".
waitableOf(srcs) ==
    IF shape = "then" THEN srcs[1]
    ELSE IF shape = "allThen" THEN all(srcs)
    ELSE IF shape = "waitable" THEN Loaded("w")
    ELSE loading

\* The arguments the caller's fetcher receives: fetcher(waitable, signal),
\* fetcher(signal) in case 2, fetcher(v, abort) in useThen,
\* fetcher(...vals, signal) in useAllThen.
fetcherArgs(c, sig) ==
    IF shape = "simple" THEN <<sig>>
    ELSE IF shape = "allThen" THEN Append(c.waitable.v, sig)
    ELSE <<c.waitable.v, sig>>

revertToLoading_hideOnly(hide, value) == ~hide

\* if (!hideReload || !hasLoaded(value))
revertToLoading(hide, value) == ~hide \/ ~hasLoaded(value)

\* The values options.prefetched takes.
Prefetched == {loading, LoadingToken(1), LoadError(ErrSource), Loaded("p")}

wrapper_ignorePrefetched(c, thr) ==
    LET call == [c EXCEPT !.invoked = TRUE,
                          !.args = fetcherArgs(c, c.sig),
                          !.log = Append(@, "call")]
    IN IF thr # NoCause
       THEN [call EXCEPT !.pc = "rejected", !.err = thr]
       ELSE [call EXCEPT !.pc = "fetching"]

\* The wrapper of case 2 after its cache step (no key, or a miss), for the
\* cycle record c that holds the signal: the prefetched value decides
\* whether the caller's fetcher is invoked.  A prefetched LoadError is
\* thrown; a prefetched value is written to the cache and returned.
wrapper(c, thr) ==
    LET call == [c EXCEPT !.invoked = TRUE,
                          !.args = fetcherArgs(c, c.sig),
                          !.log = Append(@, "call")]
        fetch == IF thr # NoCause
                 THEN [call EXCEPT !.pc = "rejected", !.err = thr]
                 ELSE [call EXCEPT !.pc = "fetching"]
    IN IF prefetched # undefined
       THEN IF prefetched = loading THEN fetch
            ELSE IF loadFailed(prefetched)
            THEN [c EXCEPT !.pc = "rejected", !.err = asCause(prefetched)]
            ELSE IF isLoadingValue(prefetched) THEN fetch
            ELSE IF cacheKey
                 THEN [c EXCEPT !.pc = "wrapWrite", !.res = prefetched.v]
                 ELSE [c EXCEPT !.pc = "resolved", !.res = prefetched.v]
       ELSE fetch

\* The cycle record after doFetch called abort() (giving source s) and
\* invoked the producer; thr is the cause the caller's producer throws
\* synchronously when invoked, NoCause if it returns a promise.
\* In case 1 the producer is the caller's fetcher; in case 2 and in
\* useThen it is an async function around the caller's fetcher, so a throw
\* inside it rejects the promise it returns.  The useThen wrapper reaches
\* the caller's fetcher through map: a waitable that has not loaded would
\* be passed through as the result (the ready condition excludes it).
doFetch(c, s, thr) ==
    LET c1 == [c EXCEPT !.sig = signalOf(s)]
        call == [c1 EXCEPT !.invoked = TRUE,
                           !.args = fetcherArgs(c, signalOf(s)),
                           !.log = Append(@, "call")]
        fetched == IF thr # NoCause
                   THEN [call EXCEPT !.pc = "rejected", !.err = thr]
                   ELSE [call EXCEPT !.pc = "fetching"]
    IN IF shape = "waitable"
       THEN IF thr # NoCause
            THEN [call EXCEPT !.pc = "threw", !.err = thr]
            ELSE [call EXCEPT !.pc = "fetching"]
       ELSE IF shape = "simple"
            THEN IF cacheKey
                 THEN [c1 EXCEPT !.pc = "wrapRead", !.cached = store,
                                 !.log = Append(@, "read")]
                 ELSE wrapper(c1, thr)
            ELSE LET m == map(c.waitable, fetched)
                 IN IF hasLoaded(c.waitable)
                    THEN m
                    ELSE [c1 EXCEPT !.pc = "resolved", !.res = m.tag]

\* setValue of the instance: ignored once the component is unmounted.
setValue(newValue, loadStart) ==
    IF mounted THEN updateValue(cell, newValue, loadStart) ELSE cell

\* No pure function was called yet.
NoCall == [op |-> "none", inputs |-> <<>>, output |-> loading, mapperCalls |-> 0]

\* The state of an instance called without a prefetched value, alone in
\* its process.
XInit ==
    /\ prefetched = undefined
    /\ others = {}
    /\ dirty = FALSE
    /\ reruns = {}
    /\ cancelled = FALSE
    /\ pure = NoCall
    /\ rendered = <<>>

HInit ==
    /\ XInit
    /\ shape \in {"waitable", "simple"}
    /\ cacheKey \in BOOLEAN
    /\ store \in (IF cacheKey THEN {"none", "v1"} ELSE {"none"})
    /\ cell = InitCell(loading)
    /\ now = 0
    /\ cycles = <<>>
    /\ src = InitSource
    /\ currentlyLoading = {}
    /\ prerenderReady = FALSE
    /\ escaped = {}
    /\ mounted = TRUE

\* A render whose dependency list changed (or the first render): the
\* cleanup of the previous effect, then the effect.
StartCycleW(t, srcs, rdy, hide, thr) ==
    /\ mounted
    /\ Len(cycles) < MaxCycles
    /\ shape = "simple" => rdy
    /\ shape \in {"then", "allThen"} => rdy = hasLoaded(waitableOf(srcs))
    /\ LET n == Len(cycles)
           clean == n > 0 /\ cycles[n].cleanup
           src1 == IF clean THEN useAbort(src) ELSE src
           cl1 == IF clean THEN currentlyLoading \ {cycles[n].startTime}
                  ELSE currentlyLoading
           cycles1 == IF clean THEN [cycles EXCEPT ![n].torn = TRUE] ELSE cycles
           startTime == t
           c0 == [NewCycle(startTime, rdy, ~revertToLoading(hide, cell.value))
                    EXCEPT !.sources = srcs, !.waitable = waitableOf(srcs)]
           viaCache == rdy /\ shape # "simple" /\ cacheKey
           fetchNow == rdy /\ ~viaCache
           src2 == IF fetchNow THEN useAbort(src1) ELSE src1
           c1 == IF viaCache
                 THEN [c0 EXCEPT !.pc = "cacheRead", !.cached = store,
                                 !.log = Append(@, "read")]
                 ELSE IF fetchNow THEN doFetch(c0, src2, thr)
                 ELSE c0
           threw == c1.pc = "threw"
       IN /\ cell' = IF revertToLoading(hide, cell.value)
                     THEN setValue(Lit(loading), startTime)
                     ELSE cell
          /\ src' = src2
          /\ currentlyLoading' = IF fetchNow THEN cl1 \cup {startTime} ELSE cl1
          /\ cycles' = Append(cycles1, [c1 EXCEPT !.cleanup = ~threw])
          /\ escaped' = IF threw THEN escaped \cup {"effect"} ELSE escaped
          /\ mounted' = ~threw
          /\ now' = t
    /\ rendered' = srcs
    /\ UNCHANGED <<pvars, shape, cacheKey, store, prerenderReady,
                   prefetched, others, dirty, reruns, cancelled, pure>>

\* A render of useLoadable (case 1 with an opaque waitable, or case 2).
StartCycle(t, rdy, hide, thr) == StartCycleW(t, <<>>, rdy, hide, thr)

CacheReadDone_noSet(i, ok, thr) ==
    /\ i \in 1..Len(cycles)
    /\ cycles[i].pc = "cacheRead"
    /\ LET c == cycles[i]
           src1 == IF ok THEN useAbort(src) ELSE src
           c0 == [c EXCEPT !.cached = "none", !.hit = c.cached]
           c1 == IF ok THEN doFetch(c0, src1, thr)
                 ELSE [c EXCEPT !.cached = "none", !.pc = "readFailed",
                                !.log = Append(@, "read:failed")]
       IN /\ cell' = cell
          /\ currentlyLoading' = IF ok THEN currentlyLoading \cup {c.startTime}
                                 ELSE currentlyLoading
          /\ src' = src1
          /\ cycles' = [cycles EXCEPT ![i] = c1]
          /\ escaped' = IF c1.pc = "threw" THEN escaped \cup {"unhandled"}
                        ELSE IF c1.pc = "readFailed" THEN escaped \cup {"cacheRead"}
                        ELSE escaped
    /\ UNCHANGED <<pvars, xvars, shape, cacheKey, store, now, prerenderReady, mounted>>

\* Case 1 with a cache key: readCache settled.  If it resolved: set the
\* cached value if one was found, then doFetch().  If it rejected (ok is
\* FALSE), the async function around it rejects and nothing handles that.
CacheReadDone(i, ok, thr) ==
    /\ i \in 1..Len(cycles)
    /\ cycles[i].pc = "cacheRead"
    /\ LET c == cycles[i]
           found == c.cached # "none"
           src1 == IF ok THEN useAbort(src) ELSE src
           c0 == [c EXCEPT !.cached = "none", !.hit = c.cached,
                           !.log = IF found THEN Append(@, "set:cached") ELSE @]
           c1 == IF ok THEN doFetch(c0, src1, thr)
                 ELSE [c EXCEPT !.cached = "none", !.pc = "readFailed",
                                !.log = Append(@, "read:failed")]
       IN /\ cell' = IF ok /\ found
                     THEN setValue(Lit(Loaded(c.cached)), c.startTime)
                     ELSE cell
          /\ currentlyLoading' = IF ok THEN currentlyLoading \cup {c.startTime}
                                 ELSE currentlyLoading
          /\ src' = src1
          /\ cycles' = [cycles EXCEPT ![i] = c1]
          /\ escaped' = IF c1.pc = "threw" THEN escaped \cup {"unhandled"}
                        ELSE IF c1.pc = "readFailed" THEN escaped \cup {"cacheRead"}
                        ELSE escaped
    /\ UNCHANGED <<pvars, xvars, shape, cacheKey, store, now, prerenderReady, mounted>>

\* Case 2 with a cache key: the wrapper's readCache resolved; return the
\* cached value if one was found, else invoke the caller's fetcher.
\* If readCache rejected (ok is FALSE) the wrapper rejects with its cause.
WrapAfterRead(i, ok, thr) ==
    /\ i \in 1..Len(cycles)
    /\ cycles[i].pc = "wrapRead"
    /\ LET c == cycles[i]
       IN cycles' = [cycles EXCEPT ![i] =
            IF ~ok
            THEN [c EXCEPT !.pc = "rejected", !.err = ErrCache, !.cached = "none",
                           !.log = Append(@, "read:failed")]
            ELSE IF c.cached # "none"
            THEN [c EXCEPT !.pc = "resolved", !.res = c.cached, !.cached = "none",
                           !.hit = c.cached]
            ELSE wrapper(c, thr)]
    /\ UNCHANGED <<pvars, xvars, shape, cacheKey, store, cell, now, src,
                   currentlyLoading, prerenderReady, escaped, mounted>>

\* The caller's producer resolves its promise with x.  The wrapper of
\* case 2 goes on to write x to the cache, unless it returned the fetcher's
\* promise as it is (prefetched given as loading).
Resolve(i, x) ==
    /\ i \in 1..Len(cycles)
    /\ cycles[i].pc = "fetching"
    /\ cycles' = [cycles EXCEPT ![i].res = x,
                                ![i].pc = IF /\ shape = "simple"
                                             /\ cacheKey
                                             /\ prefetched = undefined
                                          THEN "wrapWrite" ELSE "resolved"]
    /\ UNCHANGED <<pvars, xvars, shape, cacheKey, store, cell, now, src,
                   currentlyLoading, prerenderReady, escaped, mounted>>

\* The caller's producer rejects its promise with cause e.
Reject(i, e) ==
    /\ i \in 1..Len(cycles)
    /\ cycles[i].pc = "fetching"
    /\ cycles' = [cycles EXCEPT ![i].err = e, ![i].pc = "rejected"]
    /\ UNCHANGED <<pvars, xvars, shape, cacheKey, store, cell, now, src,
                   currentlyLoading, prerenderReady, escaped, mounted>>

\* Case 2 with a cache key: await writeCache(cacheKey, data), return data.
\* If writeCache rejected (ok is FALSE) the wrapper rejects with its cause.
WrapWrite(i, ok) ==
    /\ i \in 1..Len(cycles)
    /\ cycles[i].pc = "wrapWrite"
    /\ store' = IF ok THEN cycles[i].res ELSE store
    /\ cycles' = [cycles EXCEPT ![i].pc = IF ok THEN "resolved" ELSE "rejected",
                                ![i].err = IF ok THEN @ ELSE ErrCache,
                                ![i].log = Append(@, IF ok THEN "write"
                                                     ELSE "write:failed")]
    /\ UNCHANGED <<pvars, xvars, shape, cacheKey, cell, now, src,
                   currentlyLoading, prerenderReady, escaped, mounted>>

ThenHandler_noSet(i, ok) ==
    /\ i \in 1..Len(cycles)
    /\ cycles[i].pc = "resolved"
    /\ shape = "simple" \/ ~cacheKey => ok
    /\ store' = IF shape # "simple" /\ cacheKey /\ ok THEN cycles[i].res ELSE store
    /\ cycles' = [cycles EXCEPT ![i].pc = "finally",
                                ![i].log = IF shape # "simple" /\ cacheKey
                                           THEN @ \o <<IF ok THEN "write" ELSE "write:failed",
                                                        "set:result">>
                                           ELSE Append(@, "set:result")]
    /\ UNCHANGED <<pvars, xvars, shape, cacheKey, cell, now, src,
                   currentlyLoading, prerenderReady, escaped, mounted>>

\* .then(result => ...): in case 1 with a cache key, writeCache(...) with
\* its rejection (ok is FALSE) caught and logged; then setValue.
ThenHandler(i, ok) ==
    /\ i \in 1..Len(cycles)
    /\ cycles[i].pc = "resolved"
    /\ shape = "simple" \/ ~cacheKey => ok
    /\ store' = IF shape # "simple" /\ cacheKey /\ ok THEN cycles[i].res ELSE store
    /\ cell' = setValue(Lit(Loaded(cycles[i].res)), cycles[i].startTime)
    /\ cycles' = [cycles EXCEPT ![i].pc = "finally",
                                ![i].log = IF shape # "simple" /\ cacheKey
                                           THEN @ \o <<IF ok THEN "write" ELSE "write:failed",
                                                        "set:result">>
                                           ELSE Append(@, "set:result")]
    /\ UNCHANGED <<pvars, xvars, shape, cacheKey, now, src,
                   currentlyLoading, prerenderReady, escaped, mounted>>

CatchHandler_loading(i) ==
    /\ i \in 1..Len(cycles)
    /\ cycles[i].pc = "rejected"
    /\ cell' = setValue(Lit(loading), cycles[i].startTime)
    /\ cycles' = [cycles EXCEPT ![i].pc = "finally",
                                ![i].onError = Append(@, cycles[i].err),
                                ![i].log = @ \o <<"onError", "set:error">>]
    /\ UNCHANGED <<pvars, xvars, shape, cacheKey, store, now, src,
                   currentlyLoading, prerenderReady, escaped, mounted>>

\* .catch(e => ...)
CatchHandler(i) ==
    /\ i \in 1..Len(cycles)
    /\ cycles[i].pc = "rejected"
    /\ cell' = setValue(Lit(LoadError(cycles[i].err)), cycles[i].startTime)
    /\ cycles' = [cycles EXCEPT ![i].pc = "finally",
                                ![i].onError = Append(@, cycles[i].err),
                                ![i].log = @ \o <<"onError", "set:error">>]
    /\ UNCHANGED <<pvars, xvars, shape, cacheKey, store, now, src,
                   currentlyLoading, prerenderReady, escaped, mounted>>

\* .finally(() => ...)
Finally(i) ==
    /\ i \in 1..Len(cycles)
    /\ cycles[i].pc = "finally"
    /\ currentlyLoading' = currentlyLoading \ {cycles[i].startTime}
    /\ prerenderReady' = (prerenderReady \/ currentlyLoading' = {})
    /\ cycles' = [cycles EXCEPT ![i].pc = "done"]
    /\ UNCHANGED <<pvars, xvars, shape, cacheKey, store, cell, now, src,
                   escaped, mounted>>

\* The component unmounts: the cleanup of the last effect runs.
Unmount ==
    /\ mounted
    /\ mounted' = FALSE
    /\ LET n == Len(cycles)
           clean == n > 0 /\ cycles[n].cleanup
       IN /\ src' = IF clean THEN useAbort(src) ELSE src
          /\ currentlyLoading' = IF clean THEN currentlyLoading \ {cycles[n].startTime}
                                 ELSE currentlyLoading
          /\ cycles' = IF clean THEN [cycles EXCEPT ![n].torn = TRUE] ELSE cycles
    /\ UNCHANGED <<pvars, xvars, shape, cacheKey, store, cell, now,
                   prerenderReady, escaped>>

Throws == Thrown \cup {NoCause}

\* currentTimestamp() returns the value it returned last, or a later one;
\* the first value is later than the cell's initial loadStart, 0.
Start ==
    \E t \in {now, now + 1} \ {0}, rdy \in BOOLEAN, hide \in BOOLEAN, thr \in Throws :
        StartCycle(t, rdy, hide, thr)
CacheRead ==
    \E i \in 1..MaxCycles, ok \in BOOLEAN, thr \in Throws : CacheReadDone(i, ok, thr)
WrapRead ==
    \E i \in 1..MaxCycles, ok \in BOOLEAN, thr \in Throws : WrapAfterRead(i, ok, thr)
Settle ==
    \E i \in 1..MaxCycles :
        \/ \E x \in Values : Resolve(i, x)
        \/ \E e \in Rejections : Reject(i, e)
Handlers ==
    \E i \in 1..MaxCycles :
        \/ \E ok \in BOOLEAN : WrapWrite(i, ok)
        \/ \E ok \in BOOLEAN : ThenHandler(i, ok)
        \/ CatchHandler(i)
        \/ Finally(i)

HNext ==
    \/ Start
    \/ CacheRead
    \/ WrapRead
    \/ Settle
    \/ Handlers
    \/ Unmount

\* useThen and useAllThen: the renders carry the source loadables.
ThenStart ==
    \E t \in {now, now + 1} \ {0}, hide \in BOOLEAN, thr \in Throws :
        \E s1 \in FirstSources, s2 \in SecondSources :
            LET srcs == IF shape = "then" THEN <<s1>> ELSE <<s1, s2>>
            IN StartCycleW(t, srcs, hasLoaded(waitableOf(srcs)), hide, thr)
ThenHandlers ==
    \E i \in 1..MaxCycles :
        \/ \E ok \in BOOLEAN : ThenHandler(i, ok)
        \/ CatchHandler(i)
        \/ Finally(i)

ThenNext ==
    \/ ThenStart
    \/ CacheRead
    \/ Settle
    \/ ThenHandlers
    \/ Unmount

Init == PInit /\ HInit /\ pimpl = "loadable"
ThenInit ==
    /\ PInit /\ pimpl = "loadable"
    /\ XInit
    /\ shape \in {"then", "allThen"}
    /\ cacheKey \in BOOLEAN
    /\ store \in (IF cacheKey THEN {"none", "v1"} ELSE {"none"})
    /\ cell = InitCell(loading)
    /\ now = 0
    /\ cycles = <<>>
    /\ src = InitSource
    /\ currentlyLoading = {}
    /\ prerenderReady = FALSE
    /\ escaped = {}
    /\ mounted = TRUE
InitPrim == PInit /\ HInit /\ shape = "waitable" /\ ~cacheKey

Spec == Init /\ [][HNext]_vars

\* Queued promise reactions always run.
FairSpec == Spec /\ WF_vars(CacheRead) /\ WF_vars(WrapRead) /\ WF_vars(Handlers)

SpecPrim == InitPrim /\ [][PNext]_vars

SpecThen == ThenInit /\ [][ThenNext]_vars

\* useLoadable(fetcher, deps, options) with options.prefetched given.
PrefInit ==
    /\ PInit /\ pimpl = "loadable"
    /\ shape = "simple"
    /\ cacheKey \in BOOLEAN
    /\ store \in (IF cacheKey THEN {"none", "v1"} ELSE {"none"})
    /\ cell = InitCell(loading)
    /\ now = 0
    /\ cycles = <<>>
    /\ src = InitSource
    /\ currentlyLoading = {}
    /\ prerenderReady = FALSE
    /\ escaped = {}
    /\ mounted = TRUE
    /\ prefetched \in Prefetched
    /\ others = {}
    /\ dirty = FALSE
    /\ reruns = {}
    /\ cancelled = FALSE
    /\ pure = NoCall
    /\ rendered = <<>>

PrefNext ==
    \/ Start
    \/ WrapRead
    \/ Settle
    \/ Handlers
    \/ Unmount

\* Another hook instance of the process, seen through the tracker it
\* shares: its effect runs (the cleanup of its previous cycle deletes that
\* cycle's timestamp, doFetch adds the new one), and the .finally of its
\* live producer call runs.
OtherStart ==
    \E t \in {now, now + 1} \ {0} :
        /\ t <= MaxTime
        /\ others' = {t}
        /\ currentlyLoading' = (currentlyLoading \ others) \cup {t}
        /\ now' = t
        /\ UNCHANGED <<pvars, shape, cacheKey, store, cell, cycles, src,
                       prerenderReady, escaped, mounted,
                       prefetched, dirty, reruns, cancelled, pure, rendered>>

OtherFinally ==
    \E t \in others :
        /\ others' = {}
        /\ currentlyLoading' = currentlyLoading \ {t}
        /\ prerenderReady' = (prerenderReady \/ currentlyLoading' = {})
        /\ UNCHANGED <<pvars, shape, cacheKey, store, cell, now, cycles, src,
                       escaped, mounted, prefetched, dirty, reruns, cancelled, pure, rendered>>

SharedNext ==
    \/ Start
    \/ Settle
    \/ ThenHandlers
    \/ Unmount
    \/ OtherStart
    \/ OtherFinally

\* One useLoadable instance (called without a cache key) and the other
\* instances of its process.
SharedInit == Init /\ ~cacheKey

SpecShared == SharedInit /\ [][SharedNext]_vars

\* The pure functions, called by a caller on sample values: the loading
\* symbol, a LoadingToken, a LoadError, and plain values, undefined and
\* null among them.
Samples ==
    {loading, LoadingToken(1), LoadError(ErrBoom),
     Loaded("v1"), Loaded("v2"), undefined, null}

\* The mappers a caller passes to map: x => [x, x] and x => "k".
Mappers == {"pair", "k"}
applyMapper(f, x) == IF f = "pair" THEN <<x, x>> ELSE "k"

CallAll ==
    \E n \in 0..MaxArgs :
        \E loadables \in [1..n -> Samples] :
            /\ pure' = [op |-> "all", inputs |-> loadables,
                        output |-> all(loadables), mapperCalls |-> 0]
            /\ UNCHANGED <<pvars, hvars, prefetched, others, dirty, reruns, cancelled, rendered>>

CallMap ==
    \E loadable \in Samples, f \in Mappers :
        /\ pure' = [op |-> "map", inputs |-> <<loadable, f>>,
                    output |-> map(loadable, Loaded(applyMapper(f, loadable.v))),
                    mapperCalls |-> mapCalls(loadable)]
        /\ UNCHANGED <<pvars, hvars, prefetched, others, dirty, reruns, cancelled, rendered>>

\* hasLoaded, loadFailed and isLoadingValue applied to one value.
CallGuards ==
    \E value \in Samples :
        /\ pure' = [op |-> "guards", inputs |-> <<value>>,
                    output |-> <<hasLoaded(value), loadFailed(value),
                                 isLoadingValue(value)>>,
                    mapperCalls |-> 0]
        /\ UNCHANGED <<pvars, hvars, prefetched, others, dirty, reruns, cancelled, rendered>>

FnNext ==
    \/ CallAll
    \/ CallMap
    \/ CallGuards

SpecFn == InitPrim /\ [][FnNext]_vars

(* ---------------------------------------------------------------------- *)
(* useLoadableWithCleanup                                                   *)
(* ---------------------------------------------------------------------- *)
\* The hook keeps one AbortController in a ref (src.ref; src.signals tells
\* which controllers were aborted).  Its effect lists value and setValue
\* among its dependencies: value changes with the cell, and setValue
\* (updateValue of useLatestState) is a new function at every render, so
\* the effect runs again after every render, and a render follows every
\* replacement of the state object of the cell.
abortCurrent_noop(s) == s

\* abortControllerRef.current?.abort()
abortCurrent(s) ==
    IF s.ref # 0 THEN [s EXCEPT !.signals[s.ref] = TRUE] ELSE s

\* abortControllerRef.current = new AbortController()
newController(s) ==
    [ref |-> Len(s.signals) + 1, signals |-> Append(s.signals, FALSE)]

\* The reducer of useLatestState returned a new state object.
replaced(loadStart) == mounted /\ ~(cell.loadStart > loadStart)

\* A render, the cleanup of the previous effect and the effect.  trigger
\* tells why the component rendered: "mount", "deps" (the caller's
\* dependencies, waitable or options changed) or "state" (only the cell's
\* state object was replaced: the waitable and the options are those of
\* the previous render).
WCStartCycle(t, trigger, rdy, hide, thr) ==
    /\ mounted
    /\ Len(cycles) < MaxCycles
    /\ shape = "simple" => rdy
    /\ trigger = "mount" <=> cycles = <<>>
    /\ trigger = "state"
       => /\ dirty
          /\ rdy = cycles[Len(cycles)].ready
          /\ hide = cycles[Len(cycles)].hideReload
    /\ LET n == Len(cycles)
           clean == n > 0 /\ cycles[n].cleanup
           src1 == IF clean THEN abortCurrent(src) ELSE src
           cl1 == IF clean THEN currentlyLoading \ {cycles[n].startTime}
                  ELSE currentlyLoading
           cycles1 == IF clean THEN [cycles EXCEPT ![n].torn = TRUE] ELSE cycles
           startTime == t
           revert == revertToLoading(hide, cell.value)
           c0 == [NewCycle(startTime, rdy, ~revert) EXCEPT !.hideReload = hide]
           src2 == IF rdy THEN newController(src1) ELSE src1
           c1 == IF rdy THEN doFetch(c0, src2, thr) ELSE c0
           threw == c1.pc = "threw"
       IN /\ cell' = IF revert THEN setValue(Lit(loading), startTime) ELSE cell
          /\ dirty' = (revert /\ replaced(startTime))
          /\ src' = src2
          /\ currentlyLoading' = IF rdy THEN cl1 \cup {startTime} ELSE cl1
          /\ cycles' = Append(cycles1, [c1 EXCEPT !.cleanup = ~threw])
          /\ escaped' = IF threw THEN escaped \cup {"effect"} ELSE escaped
          /\ mounted' = ~threw
          /\ reruns' = IF trigger = "state" THEN reruns \cup {n + 1} ELSE reruns
          /\ now' = t
    /\ cancelled' = FALSE
    /\ UNCHANGED <<pvars, shape, cacheKey, store, prerenderReady,
                   prefetched, others, pure, rendered>>

\* .then(result => setValue(result, startTime))
WCThenHandler(i) ==
    /\ i \in 1..Len(cycles)
    /\ cycles[i].pc = "resolved"
    /\ cell' = setValue(Lit(Loaded(cycles[i].res)), cycles[i].startTime)
    /\ dirty' = (dirty \/ replaced(cycles[i].startTime))
    /\ cycles' = [cycles EXCEPT ![i].pc = "finally",
                                ![i].log = Append(@, "set:result")]
    /\ UNCHANGED <<pvars, shape, cacheKey, store, now, src, currentlyLoading,
                   prerenderReady, escaped, mounted,
                   prefetched, others, reruns, cancelled, pure, rendered>>

\* .catch(e => ...)
WCCatchHandler(i) ==
    /\ i \in 1..Len(cycles)
    /\ cycles[i].pc = "rejected"
    /\ cell' = setValue(Lit(LoadError(cycles[i].err)), cycles[i].startTime)
    /\ dirty' = (dirty \/ replaced(cycles[i].startTime))
    /\ cycles' = [cycles EXCEPT ![i].pc = "finally",
                                ![i].onError = Append(@, cycles[i].err),
                                ![i].log = @ \o <<"onError", "set:error">>]
    /\ UNCHANGED <<pvars, shape, cacheKey, store, now, src, currentlyLoading,
                   prerenderReady, escaped, mounted,
                   prefetched, others, reruns, cancelled, pure, rendered>>

\* The component unmounts: the cleanup of the last effect runs.
WCUnmount ==
    /\ mounted
    /\ mounted' = FALSE
    /\ LET n == Len(cycles)
           clean == n > 0 /\ cycles[n].cleanup
       IN /\ src' = IF clean THEN abortCurrent(src) ELSE src
          /\ currentlyLoading' = IF clean THEN currentlyLoading \ {cycles[n].startTime}
                                 ELSE currentlyLoading
          /\ cycles' = IF clean THEN [cycles EXCEPT ![n].torn = TRUE] ELSE cycles
    /\ UNCHANGED <<pvars, xvars, shape, cacheKey, store, cell, now,
                   prerenderReady, escaped>>

\* The caller calls the second element of the returned tuple.
cleanupFunc ==
    /\ src' = abortCurrent(src)
    /\ cancelled' = TRUE
    /\ UNCHANGED <<pvars, shape, cacheKey, store, cell, now, cycles,
                   currentlyLoading, prerenderReady, escaped, mounted,
                   prefetched, others, dirty, reruns, pure, rendered>>

WCStart ==
    \E t \in {now, now + 1} \ {0}, trigger \in {"mount", "deps", "state"} :
        \E rdy \in BOOLEAN, hide \in BOOLEAN, thr \in Throws :
            WCStartCycle(t, trigger, rdy, hide, thr)
WCHandlers ==
    \E i \in 1..MaxCycles :
        \/ WCThenHandler(i)
        \/ WCCatchHandler(i)
        \/ Finally(i)

WCNext ==
    \/ WCStart
    \/ Settle
    \/ WCHandlers
    \/ WCUnmount
    \/ cleanupFunc

\* One useLoadableWithCleanup instance, in either call shape, called with
\* no cache key and no prefetched value.
WCInit == Init /\ ~cacheKey

SpecCleanup == WCInit /\ [][WCNext]_vars

\* Queued promise reactions always run.
SpecPref == PrefInit /\ [][PrefNext]_vars /\ WF_vars(WrapRead) /\ WF_vars(Handlers)

(* ---------------------------------------------------------------------- *)
(* Properties                                                               *)
(* ---------------------------------------------------------------------- *)
\* The .then or .catch reaction of the cycle has run.
handled(c) == c.pc \in {"finally", "done"}

\* What that reaction wrote (or tried to write) into the cell.
outcome(c) == IF c.err # NoCause THEN LoadError(c.err) ELSE Loaded(c.res)

\* The cycle did e (an entry of its log).
did(c, e) == \E k \in 1..Len(c.log) : c.log[k] = e

\* What the producer handed to the hook did in cycle c, as far as the cycle
\* shows it: "resolve", "throw" (before returning a promise), "reject", or
\* "none" when the caller's fetcher was not invoked or is still pending.
producerOutcome(c) ==
    IF ~c.invoked THEN "none"
    ELSE IF c.res # "none" THEN "resolve"
    ELSE IF c.err \in Thrown THEN "throw"
    ELSE IF c.err \in Rejections THEN "reject"
    ELSE "none"

\* Case 1 with a waitable that is ready, read off the effect: the logs a
\* first cycle can end with, given what the cache read did (failed, found
\* c.hit, found nothing) and what the producer did when that is known.
case1Logs(c) ==
    LET rd == IF cacheKey THEN <<"read">> ELSE <<>>
        found == IF c.hit # "none" THEN <<"set:cached">> ELSE <<>>
        head == <<"set:loading">> \o rd \o found \o <<"call">>
        wr == IF cacheKey THEN {<<"write">>, <<"write:failed">>} ELSE {<<>>}
        onResolve == {w \o <<"set:result">> : w \in wr}
        onReject == {<<"onError", "set:error">>}
        onThrow == {<<>>}
        out == producerOutcome(c)
        tails == IF out = "resolve" THEN onResolve
                 ELSE IF out = "reject" THEN onReject
                 ELSE IF out = "throw" THEN onThrow
                 ELSE onResolve \cup onReject \cup onThrow
    IN IF cacheKey /\ did(c, "read:failed")
       THEN {<<"set:loading", "read", "read:failed">>}
       ELSE {head \o t : t \in tails}

\* The value case 1 leaves in the cell at the end of such a cycle.
case1Value(c) ==
    LET out == producerOutcome(c)
    IN IF cacheKey /\ did(c, "read:failed") THEN loading
       ELSE IF out = "resolve" THEN Loaded(c.res)
       ELSE IF out = "reject" THEN LoadError(c.err)
       ELSE IF c.hit # "none" THEN Loaded(c.hit)
       ELSE loading

\* Nothing more will happen in the cycle.
terminated(c) == c.pc \in {"done", "threw", "readFailed"}

\* The value a write asked for, computed from the cell before the write.
resolved(newValue, currentValue) ==
    IF newValue.fn THEN Apply(newValue.f, currentValue) ELSE newValue.v

Max(S) == CHOOSE m \in S : \A k \in S : k <= m

\* C1: for two cycles A and B of one instance, B started after A (the two
\* may have read the same clock value), once the reactions of both producer
\* calls have run, in whichever order, the cell holds the outcome of B.
\* B is taken to be the newest cycle of a mounted instance.
C1_LastStartedWins ==
    \A a \in 1..Len(cycles) :
        LET b == Len(cycles)
        IN (mounted /\ a < b /\ handled(cycles[a]) /\ handled(cycles[b]))
           => cell.value = outcome(cycles[b])

\* C2: once a newer cycle has started, the value an older cycle's producer
\* resolves with never becomes the value of the cell: the .then reaction of
\* a superseded cycle leaves the cell as it was.
C2_StaleResultNeverVisible ==
    [][\A i \in 1..Len(cycles) :
          (/\ mounted
           /\ i < Len(cycles)
           /\ cycles[i].invoked
           /\ cycles[i].pc = "resolved"
           /\ cycles'[i].pc = "finally")
          => cell' = cell]_vars

\* C3: a write whose timestamp is strictly less than the stored timestamp
\* leaves the stored value and the stored timestamp unchanged and does not
\* invoke the updater.
C3_OlderWriteDropped ==
    (plast.n > 0 /\ plast.loadStart < plast.before.loadStart)
    => (pcell = plast.before /\ ~plast.invoked)

C3_Witness ==
    /\ plast.n > 1
    /\ plast.loadStart < plast.before.loadStart
    /\ plast.newValue.fn
    /\ plast.before.value # Apply(plast.newValue.f, plast.before.value)
    /\ pcell = plast.before

\* C4: a write whose timestamp is greater than or equal to the stored
\* timestamp is accepted: the stored timestamp becomes the write's, the
\* stored value becomes the literal, or the updater applied to the value the
\* cell held.
C4_NewerOrEqualWriteAccepted ==
    (plast.n > 0 /\ plast.loadStart >= plast.before.loadStart)
    => /\ pcell.loadStart = plast.loadStart
       /\ pcell.value = resolved(plast.newValue, plast.before.value)
       /\ plast.invoked = plast.newValue.fn

C4_Witness ==
    /\ plast.n > 1
    /\ plast.loadStart = plast.before.loadStart
    /\ plast.loadStart > 0
    /\ plast.newValue.fn
    /\ pcell.value # plast.before.value

\* C5: every call of the function useAbort returns has aborted the signal
\* the previous call returned, and returns a signal that is not aborted: of
\* the signals handed out, only the newest can be un-aborted, and it is
\* un-aborted while the component is mounted.
C5_AtMostOneLiveSignal ==
    /\ \A i \in pissued : ~psrc.signals[i] => i = Max(pissued)
    /\ Cardinality({i \in pissued : ~psrc.signals[i]}) <= 1
    /\ (pmounted /\ pissued # {}) => ~psrc.signals[Max(pissued)]

C5_Witness ==
    /\ Cardinality(pissued) >= 3
    /\ pmounted
    /\ \A i \in pissued \ {Max(pissued)} : psrc.signals[i]

\* C6: at the start of every cycle, if hideReload is false or the cell does
\* not hold a loaded value, the cell becomes loading at the cycle's
\* timestamp; if hideReload is true and the cell holds a loaded value, the
\* cell is left unchanged.
C6_CycleStartRevertsToLoading ==
    [][\A t \in 1..(MaxCycles + 1), rdy \in BOOLEAN, hide \in BOOLEAN, thr \in Throws :
          StartCycle(t, rdy, hide, thr)
          => /\ cycles'[Len(cycles')].startTime = t
             /\ IF ~hide \/ ~hasLoaded(cell.value)
                THEN cell' = [value |-> loading, loadStart |-> t]
                ELSE cell' = cell]_vars

C6_Witness ==
    /\ Len(cycles) >= 2
    /\ cycles[Len(cycles)].kept
    /\ cycles[Len(cycles)].pc = "fetching"
    /\ hasLoaded(cell.value)
    /\ cell.loadStart < cycles[Len(cycles)].startTime

\* C7: with hideReload true, if the cell holds a loaded value v1 when a
\* cycle starts, the cell keeps showing v1 during that cycle, until the
\* cycle's own outcome replaces it.
C7_HideReloadKeepsValue ==
    [][(/\ mounted
        /\ Len(cycles) >= 1
        /\ Len(cycles') = Len(cycles)
        /\ cycles[Len(cycles)].kept
        /\ cycles[Len(cycles)].ready
        /\ ~handled(cycles'[Len(cycles)]))
       => cell'.value = cell.value]_vars

\* C8: when the producer of the current cycle fails with cause e, the
\* failure reaches the .catch reaction, which makes the cell
\* LoadError(e), with e's message, at the cycle's timestamp and calls
\* onError exactly once, with e.
C8_FailureBecomesLoadError ==
    [][\A i \in 1..Len(cycles') :
          LET c == cycles'[i]
              failsNow == /\ c.err # NoCause
                          /\ (i > Len(cycles) \/ cycles[i].err = NoCause)
              caughtNow == /\ i <= Len(cycles)
                           /\ cycles[i].pc = "rejected"
                           /\ c.pc = "finally"
          IN (mounted /\ i = Len(cycles'))
             => /\ failsNow => c.pc = "rejected"
                /\ caughtNow =>
                     /\ cell'.value.tag = "LoadError"
                     /\ cell'.value.cause = c.err
                     /\ c.err.isError => cell'.value.message = c.err.message
                     /\ cell'.loadStart = c.startTime
                     /\ c.onError = <<c.err>>]_vars

\* C9: in both call shapes, however the producer fails (a rejected promise,
\* or a throw before it returns a promise), the failure reaches the .catch
\* reaction that converts it into a LoadError, and no exception escapes the
\* hook or its effect.
C9_NoFailureEscapes ==
    /\ escaped \cap {"effect", "unhandled"} = {}
    /\ \A i \in 1..Len(cycles) :
          cycles[i].err # NoCause => cycles[i].pc \in {"rejected", "finally", "done"}

\* C10: useLoadable(producer, []) (no options, so no cache key) with no
\* dependency change (a single cycle): the first render sees loading (the
\* cell starts as loading with timestamp 0), and once the producer has
\* resolved to x the cell eventually holds x and keeps it.
C10_SingleCycleResolves ==
    /\ cell.value = loading
    /\ cell.loadStart = 0
    /\ \A x \in Values :
          (/\ mounted
           /\ ~cacheKey
           /\ Len(cycles) = 1
           /\ cycles[1].invoked
           /\ cycles[1].pc \in {"wrapWrite", "resolved"}
           /\ cycles[1].res = x)
          ~> (cell.value = Loaded(x) \/ ~mounted \/ Len(cycles) > 1)
    /\ [][(/\ Len(cycles') = 1
           /\ Len(cycles) = 1
           /\ cycles[1].invoked
           /\ cycles[1].err = NoCause
           /\ handled(cycles[1])
           /\ cell.value = Loaded(cycles[1].res))
          => cell' = cell]_vars

C10_Witness ==
    /\ shape = "simple"
    /\ ~cacheKey
    /\ mounted
    /\ Len(cycles) = 1
    /\ cycles[1].invoked
    /\ cycles[1].pc = "done"
    /\ cell = [value |-> Loaded(cycles[1].res), loadStart |-> cycles[1].startTime]

\* C11: in a cycle where readyCondition(waitable) is false the producer is
\* not invoked and no cache read is made, and while that cycle is the
\* current one the cell keeps what the cycle-start step left.
C11_NotReadyDoesNothing ==
    /\ [](\A i \in 1..Len(cycles) :
            ~cycles[i].ready =>
                /\ ~cycles[i].invoked
                /\ cycles[i].pc = "idle"
                /\ cycles[i].cached = "none"
                /\ cycles[i].log \in {<<>>, <<"set:loading">>})
    /\ [][(/\ mounted
           /\ Len(cycles) >= 1
           /\ Len(cycles') = Len(cycles)
           /\ ~cycles[Len(cycles)].ready)
          => cell' = cell]_vars

\* C12: once a cycle has been torn down (by a dependency change or by the
\* unmount), the signal handed to that cycle's producer is aborted, whether
\* it was handed over before the teardown or after it.
C12_TornCycleSignalsAborted ==
    \A i \in 1..Len(cycles) :
        (cycles[i].torn /\ cycles[i].sig # 0) => src.signals[cycles[i].sig]

\* C13: in the dependent form with a cache key whose store holds c, in the
\* current ready cycle of a mounted instance: when the cache read yields c
\* the cell becomes the loaded value c at the cycle's timestamp and the
\* producer, not invoked before, is invoked; and when the producer's result
\* x is delivered, x replaces c in the cell.
C13_CachedThenFetched ==
    [][\A i \in 1..Len(cycles) :
          (mounted /\ shape # "simple" /\ i = Len(cycles'))
          => /\ (/\ cycles[i].pc = "cacheRead"
                 /\ cycles[i].cached # "none"
                 /\ cycles'[i].hit = cycles[i].cached)
                => /\ cell' = [value |-> Loaded(cycles[i].cached),
                               loadStart |-> cycles[i].startTime]
                   /\ ~cycles[i].invoked
                   /\ cycles'[i].invoked
             /\ (/\ cycles[i].hit # "none"
                 /\ cycles[i].pc = "resolved"
                 /\ cycles'[i].pc = "finally")
                => /\ cycles[i].invoked
                   /\ cell' = [value |-> Loaded(cycles[i].res),
                               loadStart |-> cycles[i].startTime]]_vars

C13_Witness ==
    /\ shape = "waitable"
    /\ mounted
    /\ Len(cycles) = 1
    /\ cycles[1].hit = "v1"
    /\ cycles[1].res = "v2"
    /\ cycles[1].log = <<"set:loading", "read", "set:cached", "call", "write", "set:result">>
    /\ cell.value = Loaded("v2")

\* C14: in the unconditional form with a cache key whose store holds c, a
\* cycle whose cache read found c still invokes the fetcher, and what the
\* cycle delivers to the cell is the fetcher's result, written back to the
\* store.
C14_SimpleCachedStillFetches ==
    \A i \in 1..Len(cycles) :
        (shape = "simple" /\ cycles[i].hit # "none" /\ handled(cycles[i]))
        => /\ cycles[i].invoked
           /\ did(cycles[i], "write")

\* C15: in both call shapes with a cache key, when the producer succeeded
\* with x and the cache write fails, the failure is absorbed: the cycle
\* records no failure cause, onError is not called, and the cycle delivers
\* the loaded value x to the cell.
C15_WriteFailureAbsorbed ==
    /\ [](\A i \in 1..Len(cycles) :
            did(cycles[i], "write:failed")
            => /\ cycles[i].err = NoCause
               /\ cycles[i].onError = <<>>
               /\ cycles[i].pc \in {"resolved", "finally", "done"})
    /\ [][\A i \in 1..Len(cycles) :
             (/\ mounted
              /\ i = Len(cycles')
              /\ did(cycles'[i], "write:failed")
              /\ cycles[i].pc = "resolved"
              /\ cycles'[i].pc = "finally")
             => cell' = [value |-> Loaded(cycles[i].res),
                         loadStart |-> cycles[i].startTime]]_vars

\* C16: in both call shapes with a cache key, a cache read that fails
\* counts as a miss: the producer is invoked when the read has failed, the
\* cycle does not stop there (which would leave the cell loading), and the
\* read failure does not become the cycle's failure cause (which would make
\* the cell a LoadError).
C16_ReadFailureIsMiss ==
    \A i \in 1..Len(cycles) :
        did(cycles[i], "read:failed")
        => /\ cycles[i].invoked
           /\ cycles[i].pc # "readFailed"
           /\ cycles[i].err # ErrCache

\* C17: the unconditional form behaves as the dependent form called with a
\* constant waitable, an always-true readyCondition and a producer that
\* ignores the waitable.  For a mounted instance whose only cycle has
\* terminated, in either form: the cycle did what case 1 does for the same
\* cache content, cache failures and producer outcome (the same cell
\* writes, fetcher invocation, cache reads and writes, in the same order),
\* and the cell holds the value case 1 leaves.
C17_SimpleIsWaitable ==
    (/\ mounted
     /\ Len(cycles) = 1
     /\ cycles[1].ready
     /\ terminated(cycles[1]))
    => /\ cycles[1].log \in case1Logs(cycles[1])
       /\ producerOutcome(cycles[1]) # "none"
          => cell.value = case1Value(cycles[1])

\* C18: useThen(source, fetcher): a cycle whose source is loading or a
\* LoadError never invokes the caller's fetcher; a cycle that invokes it has
\* a loaded source and passes the payload of that source, then the signal.
C18_ThenInvokesOnLoadedOnly ==
    \A i \in 1..Len(cycles) :
        shape = "then"
        => /\ ~hasLoaded(cycles[i].sources[1])
              => (~cycles[i].invoked /\ cycles[i].args = <<>>)
           /\ cycles[i].invoked
              => /\ hasLoaded(cycles[i].sources[1])
                 /\ cycles[i].args = <<cycles[i].sources[1].v, cycles[i].sig>>

C18_Witness ==
    /\ shape = "then"
    /\ Len(cycles) = 2
    /\ loadFailed(cycles[1].sources[1])
    /\ ~cycles[1].invoked
    /\ cycles[2].sources[1] = Loaded("s1")
    /\ cycles[2].invoked
    /\ cycles[2].args[1] = "s1"

\* C19: useThen(source, fetcher): while the source of the current cycle is
\* loading and the cycle start reverted the cell, the hook returns loading;
\* while the source is a LoadError, the hook returns that LoadError.
C19_ThenPassesSourceState ==
    LET n == Len(cycles)
    IN (shape = "then" /\ mounted /\ n >= 1)
       => /\ (isLoadingValue(cycles[n].sources[1]) /\ ~cycles[n].kept)
             => isLoadingValue(cell.value)
          /\ loadFailed(cycles[n].sources[1])
             => cell.value = cycles[n].sources[1]

\* C20: useAllThen(sources, fetcher): a cycle invokes the fetcher only if
\* every source of its render has loaded, with the payloads in the order of
\* the sources followed by the signal; and while a source of the current
\* cycle is loading or a LoadError (and the cycle start reverted the cell)
\* the result is loading.
C20_AllThenInvokesOnAllLoaded ==
    LET n == Len(cycles)
    IN shape = "allThen"
       => /\ \A i \in 1..n :
                cycles[i].invoked
                => /\ \A k \in 1..Len(cycles[i].sources) :
                         hasLoaded(cycles[i].sources[k])
                   /\ cycles[i].args = <<cycles[i].sources[1].v,
                                         cycles[i].sources[2].v,
                                         cycles[i].sig>>
          /\ (/\ mounted
              /\ n >= 1
              /\ ~cycles[n].kept
              /\ \E k \in 1..Len(cycles[n].sources) : ~hasLoaded(cycles[n].sources[k]))
             => cell.value = loading

\* The number of times the cycle invoked the caller's fetcher.
calls(c) == Cardinality({k \in 1..Len(c.log) : c.log[k] = "call"})

\* C23: there is no retry.  Within one triggering cycle the producer is
\* invoked at most once; and once the .catch reaction of the current cycle
\* has run and the cell is a LoadError, then until the next cycle starts the
\* cell stays as it is and no cycle invokes its producer.
C23_NoRetry ==
    /\ [](\A i \in 1..Len(cycles) : calls(cycles[i]) <= 1)
    /\ [][(/\ mounted
           /\ Len(cycles) >= 1
           /\ Len(cycles') = Len(cycles)
           /\ cycles[Len(cycles)].invoked
           /\ cycles[Len(cycles)].err \in Causes
           /\ handled(cycles[Len(cycles)])
           /\ loadFailed(cell.value))
          => /\ cell' = cell
             /\ \A i \in 1..Len(cycles) : calls(cycles'[i]) = calls(cycles[i])]_vars

\* The producer the effect chained on was invoked and the .finally reaction
\* of its promise has not run.
inFlight(c) ==
    c.pc \in {"wrapRead", "fetching", "wrapWrite", "resolved", "rejected", "finally"}

\* C25: every timestamp in currentlyLoading is the start time of a cycle
\* that has invoked its producer, whose producer call has not been settled
\* and cleared by .finally, and that has not been torn down.
C25_TrackerHoldsLiveCycles ==
    \A t \in currentlyLoading :
        \E i \in 1..Len(cycles) :
            /\ cycles[i].startTime = t
            /\ inFlight(cycles[i])
            /\ ~cycles[i].torn

\* C30: a producer is never invoked on behalf of a cycle after that cycle
\* has been torn down (by a dependency change or by the unmount), also when
\* the cycle was waiting for a cache read at the time of the teardown.
C30_NoInvocationAfterTeardown ==
    [][\A i \in 1..Len(cycles) :
          (cycles[i].torn /\ ~cycles[i].invoked) => ~cycles'[i].invoked]_vars

loadingNow(c) == ~c.torn /\ c.pc \in {"wrapRead", "fetching", "wrapWrite"}

\* C26: window.prerenderReady is raised only at a moment when nothing is
\* loading: no hook instance of the process has a producer call started by
\* a live cycle that has not settled, also when cycles (of one instance or
\* of several) started at the same clock value.
C26_ReadyOnlyWhenNothingLoads ==
    [][(~prerenderReady /\ prerenderReady')
       => /\ others' = {}
          /\ \A i \in 1..Len(cycles') : ~loadingNow(cycles'[i])]_vars

\* C27: all(v1..vn) returns the array [v1..vn], in the order of the
\* arguments, when every vi has loaded, and the loading symbol when at least
\* one vi is loading or a LoadError.
C27_AllCombines ==
    pure.op = "all"
    => LET a == pure.inputs
       IN IF \A i \in 1..Len(a) : a[i].tag = "value"
          THEN /\ pure.output.tag = "value"
               /\ Len(pure.output.v) = Len(a)
               /\ \A i \in 1..Len(a) : pure.output.v[i] = a[i].v
          ELSE pure.output = loading

C27_Witness ==
    /\ pure.op = "all"
    /\ pure.inputs = <<Loaded("v2"), null, Loaded("v1")>>
    /\ pure.output.v = <<"v2", "null", "v1">>

\* C28: map(v, f) returns f(x) when v is a loaded value x, calling f once;
\* it returns v itself, and never calls f, when v is loading or a LoadError.
C28_MapTransformsLoaded ==
    pure.op = "map"
    => LET v == pure.inputs[1]
           f == pure.inputs[2]
       IN IF v.tag = "value"
          THEN /\ pure.output = Loaded(applyMapper(f, v.v))
               /\ pure.mapperCalls = 1
          ELSE /\ pure.output = v
               /\ pure.mapperCalls = 0

C28_Witness ==
    /\ pure.op = "map"
    /\ pure.inputs = <<LoadError(ErrBoom), "pair">>
    /\ pure.output = LoadError(ErrBoom)
    /\ pure.mapperCalls = 0

\* C29: for every value (the loading symbol, a LoadingToken, a LoadError, or
\* any other value, null and undefined included) exactly one of hasLoaded,
\* loadFailed and isLoadingValue is true.
C29_ExactlyOneGuard ==
    pure.op = "guards"
    => Cardinality({k \in 1..3 : pure.output[k]}) = 1

C29_Witness ==
    /\ pure.op = "guards"
    /\ pure.inputs = <<LoadError(ErrBoom)>>
    /\ pure.output = <<FALSE, TRUE, FALSE>>

\* C21: useLoadableWithCleanup behaves like useLoadable for the value it
\* returns.  With unchanged dependencies it invokes the producer once per
\* triggering cycle: no effect run that only the instance's own state
\* change caused invokes the producer; and once the producer of the current
\* cycle has resolved to x and the cell holds x, the cell keeps x until the
\* dependencies change.
C21_CleanupVariantLikeUseLoadable ==
    /\ [](\A i \in reruns : ~cycles[i].invoked)
    /\ [][(/\ mounted
           /\ Len(cycles) >= 1
           /\ handled(cycles[Len(cycles)])
           /\ cycles[Len(cycles)].err = NoCause
           /\ cell.value = Loaded(cycles[Len(cycles)].res)
           /\ ~(Len(cycles') > Len(cycles) /\ Len(cycles') \notin reruns'))
          => cell'.value = cell.value]_vars

\* C22: calling the cleanup function returned by useLoadableWithCleanup
\* aborts the signal of every producer call of the instance still in
\* flight, does not write to the cell and starts no cycle.
C22_CleanupFuncAbortsOnly ==
    /\ [](cancelled
           => \A i \in 1..Len(cycles) :
                 (cycles[i].sig # 0 /\ inFlight(cycles[i]))
                 => src.signals[cycles[i].sig])
    /\ [][(cancelled' /\ ~cancelled)
          => /\ cell' = cell
             /\ cycles' = cycles
             /\ dirty' = dirty]_vars

C22_Witness ==
    /\ cancelled
    /\ mounted
    /\ Len(cycles) = 2
    /\ cycles[2].pc = "fetching"
    /\ ~cycles[2].torn
    /\ cycles[2].sig = src.ref
    /\ src.signals[src.ref]

\* C31: the signal handed to the producer of the most recently started
\* cycle is aborted only by that cycle's teardown: a step that aborts it is
\* the dependency change or the unmount that tears the cycle down, never a
\* step taken for an older cycle.
C31_NewestSignalAbortedOnlyByTeardown ==
    [][LET n == Len(cycles)
       IN (/\ n >= 1
           /\ cycles[n].sig # 0
           /\ ~src.signals[cycles[n].sig]
           /\ src'.signals[cycles[n].sig])
          => (~cycles[n].torn /\ cycles'[n].torn)]_vars

\* The cycle wrote its producer's result to the cache entry.
wrote(c) == did(c, "write")

\* Every producer call that was started has settled and its reactions ran.
allSettled ==
    \A i \in 1..Len(cycles) : cycles[i].pc \in {"idle", "done", "threw", "readFailed"}

\* C33: with a cache key, the cache entry follows the order of the cycles:
\* once every started producer call has settled, the entry holds the result
\* of the most recently started cycle that wrote it; the late success of a
\* superseded cycle does not replace what a newer cycle wrote.
C33_CacheFollowsCycleOrder ==
    LET W == {i \in 1..Len(cycles) : wrote(cycles[i])}
    IN (cacheKey /\ allSettled /\ W # {}) => store = cycles[Max(W)].res

\* C32: onError is called only for a failure of the current cycle (the most
\* recently started one, not torn down): the rejection of the producer of a
\* superseded or torn-down cycle does not call onError.
C32_OnErrorOnlyForCurrentCycle ==
    [][\A i \in 1..Len(cycles) :
          cycles'[i].onError # cycles[i].onError
          => (i = Len(cycles) /\ ~cycles[i].torn)]_vars

(* ---------------------------------------------------------------------- *)
(* useThen with the default dependency list                                 *)
(* ---------------------------------------------------------------------- *)
\* useThen(loadable, fetcher), the two-argument call: dependencies defaults
\* to [hasLoaded(loadable)] and there are no options (no cache key,
\* hideReload false).  The loadables a caller renders it with:
ThenSources == FirstSources \cup {Loaded("s2")}

\* The dependency list of the effect: [...dependencies, ready, hideReload].
depsOf(srcs) == <<hasLoaded(srcs[1]), hasLoaded(waitableOf(srcs)), FALSE>>

\* A render with loadable s1.  The effect (after the cleanup of the previous
\* one) runs at the first render and when an item of its dependency list
\* differs from the previous render's; otherwise the render changes nothing.
ThenRender(t, s1, thr) ==
    /\ mounted
    /\ IF cycles = <<>> \/ depsOf(<<s1>>) # depsOf(rendered)
       THEN StartCycleW(t, <<s1>>, hasLoaded(s1), FALSE, thr)
       ELSE /\ rendered' = <<s1>>
            /\ UNCHANGED <<pvars, hvars, prefetched, others, dirty, reruns,
                           cancelled, pure>>

ThenRenders ==
    \E t \in {now, now + 1} \ {0}, s1 \in ThenSources, thr \in Throws :
        ThenRender(t, s1, thr)

ThenDepsNext ==
    \/ ThenRenders
    \/ Settle
    \/ ThenHandlers
    \/ Unmount

ThenDepsInit == ThenInit /\ shape = "then" /\ ~cacheKey

SpecThenDeps == ThenDepsInit /\ [][ThenDepsNext]_vars

\* C34: useThen(source, fetcher) with the default dependency list: when a
\* render replaces a loaded source a by a different loaded source b, a new
\* cycle starts and invokes the fetcher with b.
C34_ThenFollowsLoadedSource ==
    [][(/\ mounted
        /\ rendered # <<>>
        /\ hasLoaded(rendered[1])
        /\ rendered' # rendered
        /\ hasLoaded(rendered'[1]))
       => /\ Len(cycles') = Len(cycles) + 1
          /\ cycles'[Len(cycles')].invoked
          /\ cycles'[Len(cycles')].args[1] = rendered'[1].v]_vars

\* C35: the stored timestamp of a useLatestState cell starts at 0 and never
\* decreases, whatever the sequence of writes, accepted or dropped.
C35_TimestampNeverDecreases ==
    /\ pcell.loadStart = 0
    /\ [][pcell'.loadStart >= pcell.loadStart]_vars

C35_Witness ==
    /\ plast.n = MaxWrites
    /\ plast.before.loadStart >= 2
    /\ plast.loadStart < plast.before.loadStart
    /\ pcell.loadStart = plast.before.loadStart

\* C36: the cell becomes loading only at the start of a triggering cycle:
\* with producers and caches that yield loaded values, no producer
\* completion, producer failure or cache read changes the cell from a loaded
\* value or a LoadError back to loading.
C36_LoadingOnlyAtCycleStart ==
    [][(~isLoadingValue(cell.value) /\ isLoadingValue(cell'.value))
       => Len(cycles') = Len(cycles) + 1]_vars

C36_Witness ==
    /\ shape = "waitable"
    /\ cacheKey
    /\ mounted
    /\ Len(cycles) = 2
    /\ cycles[1].pc = "done"
    /\ cycles[2].hit = "v1"
    /\ did(cycles[2], "set:cached")
    /\ cycles[2].err \in Rejections
    /\ cycles[2].pc = "done"
    /\ cell = [value |-> LoadError(cycles[2].err), loadStart |-> cycles[2].startTime]

====
